---- MODULE Spec2Model ----
(***************************************************************************)
(* Model of the voting client: the vote screen (src/app/(tabs)/vote.tsx),   *)
(* the authentication guards (useAuthProtection and isAuthenticated in     *)
(* src/app/_layout.tsx, TabLayout in src/app/(tabs)/_layout.tsx,           *)
(* src/components/AuthProtectedScreen.tsx), the profile screen with its    *)
(* logout (src/unnamed/part_002) and the credential store they read and    *)
(* clear (src/utils/apiConfig.ts).                                         *)
(*                                                                         *)
(* Two specifications share the store and the router.  Spec is the vote    *)
(* screen, mounted, with the guards at rest; GuardSpec is the application  *)
(* from its launch with the guards, the profile screen and the navigation  *)
(* between the routes, the vote screen being a protected route without a   *)
(* session.  The others are these two from other initial states:           *)
(* SpecDirect drives handleVote directly, DegradedSpec starts on platforms *)
(* whose orientation calls fail, LiveSpec is the web with the pending      *)
(* calls returning, NavSpec records the router's history and adds back     *)
(* navigation, SlotSpec starts from every content of the token slot.       *)
(*                                                                         *)
(* The component state is the state of the model.  Every                   *)
(* handler is one action.  An async handler is cut at each await: the      *)
(* part before the first await is the action that starts it, and each      *)
(* promise resolution is one more action that runs up to the next await    *)
(* (or through catch/finally to the end).  React flushes the state updates *)
(* of one handler before the next event is delivered, so a handler segment *)
(* is atomic and the next event sees the re-rendered view.                 *)
(*                                                                         *)
(* The remote API is external: every response the client code             *)
(* distinguishes may arrive at every call.                                 *)
(***************************************************************************)
EXTENDS Integers, Sequences, FiniteSets, TLC

\* ---------------------------------------------------------------- bounds
NumOptions == 2      \* options of the event (eventData.options)
MaxAlerts == 2       \* native alert dialogs open at the same time
MaxVoteCalls == 2    \* handleVote invocations in one behaviour
MaxHistory == 2      \* entries of the router's history
MaxInFlight == 2     \* concurrently pending calls of one async handler

\* ---------------------------------------------------------------- values
Null == 0                          \* selectedOption === null
NoData == "null"                   \* eventData === null
NoToken == "null"                  \* getItem gave null: no token stored
Options == 1..NumOptions           \* option.name of eventData.options[i]
NoError == "null"                  \* error === null
NoEvent == ""                      \* useLocalSearchParams() gave no session
EventIds == {NoEvent, "e1"}
Tokens == {"tok"}                  \* non-empty token strings
SlotContents == Tokens \cup {"", NoToken}  \* absent, empty, non-empty
AppStates == {"active", "inactive", "background"}
Routes == {"vote", "home", "Signin", "register", "profile"}
NoUser == "null"                   \* getUserData gave null: no user cached
Thrown == "thrown"                 \* the awaited call rejected
StoreOutcomes == {"ok", "throws"}  \* a call of the platform's key store

VARIABLES
  eventId,            \* vote.tsx:43   route parameter `session`
  isWeb,              \* vote.tsx:57   Platform.OS === 'web'
  orientationSupported, \* vote.tsx:159-168 lockAsync and unlockAsync do
                      \*   not fail on this device
  eventData,          \* vote.tsx:46
  loading,            \* vote.tsx:47
  error,              \* vote.tsx:48
  selectedOption,     \* vote.tsx:49
  showCandidates,     \* vote.tsx:50
  voting,             \* vote.tsx:51
  showConfirmation,   \* vote.tsx:52
  hasAlreadyVoted,    \* vote.tsx:53
  secureVotingMode,   \* vote.tsx:54
  appState,           \* vote.tsx:55   appState.current
  alerts,             \* open Alert.alert dialogs, oldest first
  fetches,            \* pending fetchEventData calls
  votes,              \* pending handleVote calls
  token,              \* the credential store's auth_token slot
  route,              \* the route the router shows
  cachedUser,         \* the credential store's user_data slot
  isLoading,          \* _layout.tsx:80  useAuthProtection
  authChecks,         \* pending checkAuthStatus runs: how many have
                      \* captured each route
  canGoBack,          \* router.canGoBack()
  history,            \* the router's history, the shown route last
  tabLayout,          \* TabLayout: "unmounted", "checking", "checked"
  screenCheck,        \* AuthProtectedScreen: "unmounted", "checking", "done"
  screenIsAuthenticated,  \* AuthProtectedScreen.tsx:16
  profile,            \* part_002:33
  profileLoading,     \* part_002:34
  profileError,       \* part_002:35  error !== null
  profileFetch,       \* position of fetchUserProfile
  logoutAlert,        \* the Logout dialog is open
  clears,             \* pending clearAuthData calls: how many of each
                      \* caller are at each await
  \* history variables (observations of the run, not program state)
  calls,              \* number of handleVote invocations
  nullCalls,          \* those that found selectedOption null
  posts,              \* the vote POSTs sent, in order
  lastSelected,       \* argument of the latest handleSelectOption
  reportedVoted,      \* the API has reported "already voted"
  acceptedDiscarded,  \* the dialog that abandoned an attempt whose vote the
                      \* API accepted afterwards, "none" if there is none
  redirects,          \* router.replace("/Signin") calls of the guards since
                      \* the user last navigated
  signedOut           \* a logout has cleared the store, no sign-in since

screenVars == <<eventData, loading, error, selectedOption, showCandidates,
                voting, showConfirmation, hasAlreadyVoted, secureVotingMode>>
guardVars == <<cachedUser, isLoading, authChecks, canGoBack, history,
               tabLayout,
               screenCheck, screenIsAuthenticated, profile, profileLoading,
               profileError, profileFetch, logoutAlert, clears, redirects,
               signedOut>>
envVars == <<eventId, isWeb, orientationSupported, guardVars>>
histVars ==
  <<calls, nullCalls, posts, lastSelected, reportedVoted, acceptedDiscarded>>
vars == <<eventId, isWeb, orientationSupported, eventData, loading, error,
          selectedOption, showCandidates, voting, showConfirmation,
          hasAlreadyVoted,
          secureVotingMode, appState, alerts, fetches, votes, token, route,
          calls, nullCalls, posts, lastSelected, reportedVoted,
          acceptedDiscarded, guardVars>>

\* ---------------------------------------------------------------- helpers
RemoveAt(s, i) == [j \in 1..(Len(s) - 1) |-> IF j < i THEN s[j] ELSE s[j + 1]]

Last(s) == s[Len(s)]

\* Variant: every token value passes, the null of a missing token too.
TruthyAlways(t) == TRUE

\* JavaScript truthiness of a token value: null and "" are falsy.
Truthy(t) == t # NoToken /\ t # ""

\* String.prototype.match with the unanchored pattern /active/: true for
\* every status that contains "active", "inactive" included.
MatchActive(s) == s \in {"active", "inactive"}

\* String.prototype.match with /inactive|background/.
MatchInactiveOrBackground(s) == s \in {"inactive", "background"}

\* Variant: getAuthToken hands the store's failure on to its caller.
GetAuthTokenRethrows(outcome) == IF outcome = "throws" THEN Thrown ELSE token

\* getAuthToken: the stored token, or null when the store's read throws.
GetAuthToken(outcome) == IF outcome = "throws" THEN NoToken ELSE token

GetAuthTokenResults == {GetAuthToken(outcome) : outcome \in StoreOutcomes}

\* ---------------------------------------------------------------- render
\* Variant: the candidates view is returned before the already-voted check.
ViewCandidatesFirst ==
  IF loading THEN "loading"
  ELSE IF error # NoError THEN "error"
  ELSE IF eventData = NoData THEN "nodata"
  ELSE IF showCandidates THEN "candidates"
  ELSE IF hasAlreadyVoted THEN "alreadyVoted"
  ELSE "details"

\* The early returns of VoteScreen's render, in their order.
View ==
  IF loading THEN "loading"
  ELSE IF error # NoError THEN "error"
  ELSE IF eventData = NoData THEN "nodata"
  ELSE IF hasAlreadyVoted THEN "alreadyVoted"
  ELSE IF showCandidates THEN "candidates"
  ELSE "details"

\* <ConfirmationModal/> is rendered by the candidates and details views only.
ModalVisible == showConfirmation /\ View \in {"candidates", "details"}

\* The application receives touches and key presses only while it is the
\* active application.
Foreground == appState = "active"

\* The screen's touchables receive presses: the screen is shown and no
\* native alert or modal window lies over it.
Touchable ==
  Foreground /\ route = "vote" /\ alerts = <<>> /\ ~ModalVisible

\* Variant: the vote button without its disabled={voting} property.
VoteButtonNeverDisabled ==
  Touchable /\ View = "candidates" /\ selectedOption # Null

\* The vote button is rendered only with a selection and is disabled while
\* voting.
VoteButtonEnabled ==
  Touchable /\ View = "candidates" /\ selectedOption # Null /\ ~voting

CanAlert == Len(alerts) < MaxAlerts

\* The orientation effect: lockAsync(PORTRAIT_UP) is called in secure
\* voting mode and unlockAsync outside it, on native platforms only; a call
\* that fails is logged and leaves the orientation as it was (unlocked).
OrientationLocked == secureVotingMode /\ ~isWeb /\ orientationSupported

\* ---------------------------------------------------------------- init
\* No run of checkAuthStatus is pending.
NoChecks == [r \in Routes |-> 0]

\* A pending clearAuthData call: its caller (fetchUserProfile or the Logout
\* button) and the item whose deletion it awaits.
ClearCalls == [by : {"profile", "logout"}, pc : {"token", "user"}]

NoClears == [c \in ClearCalls |-> 0]

\* The guards at rest: the application has been launched, the checks of
\* the root layout and of the tab layout have completed, the profile screen
\* has not been opened.
GuardsAtRest ==
  /\ cachedUser = NoUser
  /\ isLoading = FALSE
  /\ authChecks = NoChecks
  /\ canGoBack = TRUE
  /\ history = <<>>
  /\ tabLayout = "checked"
  /\ screenCheck = "unmounted"
  /\ screenIsAuthenticated = FALSE
  /\ profile = NoUser
  /\ profileLoading = TRUE
  /\ profileError = FALSE
  /\ profileFetch = "unmounted"
  /\ logoutAlert = FALSE
  /\ clears = NoClears
  /\ redirects = 0
  /\ signedOut = FALSE

\* VoteScreen after its first render and its mount effect.
VoteScreenInit ==
  /\ eventData = NoData
  /\ error = IF eventId = NoEvent THEN "noSession" ELSE NoError
  /\ loading = (eventId # NoEvent)
  /\ fetches = IF eventId = NoEvent THEN <<>> ELSE <<[pc |-> "token"]>>
  /\ selectedOption = Null
  /\ showCandidates = FALSE
  /\ voting = FALSE
  /\ showConfirmation = FALSE
  /\ hasAlreadyVoted = FALSE
  /\ secureVotingMode = FALSE
  /\ appState = "active"
  /\ alerts = <<>>
  /\ votes = <<>>
  /\ calls = 0
  /\ nullCalls = 0
  /\ posts = <<>>
  /\ lastSelected = Null
  /\ reportedVoted = FALSE
  /\ acceptedDiscarded = "none"

ScreenLaunch ==
  /\ GuardsAtRest
  /\ eventId \in EventIds
  /\ isWeb \in BOOLEAN
  /\ token \in Tokens \cup {NoToken}
  /\ route = "vote"
  /\ VoteScreenInit

\* A platform with its hooks: the web, where ScreenOrientation is never
\* called, or a native device on which lockAsync and unlockAsync succeed.
Init ==
  /\ ScreenLaunch
  /\ orientationSupported = ~isWeb

\* A platform that lacks the hooks: the web, or a native device on which
\* lockAsync and unlockAsync fail.
DegradedInit ==
  /\ ScreenLaunch
  /\ orientationSupported = FALSE

\* ---------------------------------------------------------------- fetchEventData
\* The synchronous head of fetchEventData: nothing without an eventId,
\* otherwise setLoading(true) and the credential read is pending.
FetchesAfterCall(f) ==
  IF eventId = NoEvent THEN f ELSE Append(f, [pc |-> "token"])

LoadingAfterCall(l) == IF eventId = NoEvent THEN l ELSE TRUE

CanFetch == Len(fetches) < MaxInFlight

PressRetry ==
  /\ Touchable /\ View \in {"error", "nodata"}
  /\ CanFetch
  /\ fetches' = FetchesAfterCall(fetches)
  /\ loading' = LoadingAfterCall(loading)
  /\ UNCHANGED <<envVars, eventData, error, selectedOption, showCandidates,
                 voting, showConfirmation, hasAlreadyVoted, secureVotingMode,
                 appState, alerts, votes, token, route, histVars>>

\* Variant: the early return of the missing-token branch leaves the
\* function before setLoading(false) (a try block without finally).
FetchTokenResolveNoFinally(i, tok) ==
  /\ i \in DOMAIN fetches /\ fetches[i].pc = "token"
  /\ tok \in GetAuthTokenResults
  /\ IF ~Truthy(tok)
       THEN /\ error' = "signin"
            /\ route' = "Signin"
            /\ fetches' = RemoveAt(fetches, i)
            /\ UNCHANGED loading
       ELSE /\ fetches' = [fetches EXCEPT ![i].pc = "get"]
            /\ UNCHANGED <<error, route, loading>>
  /\ UNCHANGED <<envVars, eventData, selectedOption, showCandidates, voting,
                 showConfirmation, hasAlreadyVoted, secureVotingMode,
                 appState, alerts, votes, token, histVars>>
\* await getAuthToken() of fetchEventData resolves.
FetchTokenResolve(i, tok) ==
  /\ i \in DOMAIN fetches /\ fetches[i].pc = "token"
  /\ tok \in GetAuthTokenResults
  /\ IF ~Truthy(tok)
       THEN /\ error' = "signin"
            /\ route' = "Signin"
            /\ loading' = FALSE
            /\ fetches' = RemoveAt(fetches, i)
       ELSE /\ fetches' = [fetches EXCEPT ![i].pc = "get"]
            /\ UNCHANGED <<error, route, loading>>
  /\ UNCHANGED <<envVars, eventData, selectedOption, showCandidates, voting,
                 showConfirmation, hasAlreadyVoted, secureVotingMode,
                 appState, alerts, votes, token, histVars>>

\* The responses of GET /event/{id} that fetchEventData tells apart:
\*   ok        200 with data.event, hasVoted false
\*   okVoted   200 with data.event, hasVoted true
\*   invalid   200 without data.event
\*   voted400  400 with message "User has already voted"
\*   unauthorized401  rejection with status 401
\*   failure   any other rejection (network error, 500, ...)
GetResponses ==
  {"ok", "okVoted", "invalid", "voted400", "unauthorized401", "failure"}

\* Variant: every rejection is taken for the "already voted" rejection.
IsAlreadyVotedAnyRejection(resp) ==
  resp \in {"voted400", "unauthorized401", "failure"}

\* The test of the catch blocks: status 400 and the message "User has
\* already voted".
IsAlreadyVoted(resp) == resp = "voted400"

FetchGetResolve(i, resp) ==
  /\ i \in DOMAIN fetches /\ fetches[i].pc = "get"
  /\ resp \in GetResponses
  /\ eventData' = IF resp \in {"ok", "okVoted"} THEN "event" ELSE eventData
  /\ hasAlreadyVoted' =
       IF resp = "okVoted" \/ IsAlreadyVoted(resp) THEN TRUE
                                                   ELSE hasAlreadyVoted
  /\ error' = CASE resp \in {"ok", "okVoted"} -> error
                [] resp = "invalid" -> "invalid"
                [] IsAlreadyVoted(resp) -> error
                [] OTHER -> "failed"
  /\ loading' = FALSE
  /\ fetches' = RemoveAt(fetches, i)
  /\ reportedVoted' = (reportedVoted \/ resp \in {"okVoted", "voted400"})
  /\ UNCHANGED <<envVars, selectedOption, showCandidates, voting,
                 showConfirmation, secureVotingMode, appState, alerts, votes,
                 token, route, calls, nullCalls, posts, lastSelected,
                 acceptedDiscarded>>

\* ---------------------------------------------------------------- selection
\* Variant: a selection is kept once made (first write wins).
HandleSelectOptionKeepFirst(optionName) ==
  /\ selectedOption' = IF selectedOption = Null THEN optionName
                                               ELSE selectedOption
  /\ lastSelected' = optionName

HandleSelectOption(optionName) ==
  /\ selectedOption' = optionName
  /\ lastSelected' = optionName

\* A candidate row of the candidates view is pressed.  The rows carry no
\* disabled flag.
SelectOption(o) ==
  /\ Touchable /\ View = "candidates"
  /\ o \in Options
  /\ HandleSelectOption(o)
  /\ UNCHANGED <<envVars, eventData, loading, error, showCandidates, voting,
                 showConfirmation, hasAlreadyVoted, secureVotingMode,
                 appState, alerts, fetches, votes, token, route, calls,
                 nullCalls, posts, reportedVoted, acceptedDiscarded>>

\* ---------------------------------------------------------------- handleVote
\* Variant: the guard without the test of selectedOption.
VoteGuardEventOnly == eventId # NoEvent

\* The guard of handleVote's first line.
VoteGuard == selectedOption # Null /\ eventId # NoEvent

\* handleVote up to its first await.  The closure keeps the selectedOption
\* of the render in which the handler was created.
HandleVote ==
  /\ calls < MaxVoteCalls
  /\ calls' = calls + 1
  /\ nullCalls' = IF selectedOption = Null THEN nullCalls + 1 ELSE nullCalls
  /\ IF VoteGuard
       THEN /\ Len(votes) < MaxInFlight
            /\ voting' = TRUE
            /\ votes' = Append(votes, [pc |-> "token",
                                       option |-> selectedOption,
                                       atPress |-> lastSelected,
                                       discardedBy |-> "none",
                                       discardedAt |-> "none"])
       ELSE UNCHANGED <<voting, votes>>
  /\ UNCHANGED <<envVars, eventData, loading, error, selectedOption,
                 showCandidates, showConfirmation, hasAlreadyVoted,
                 secureVotingMode, appState, alerts, fetches, token, route,
                 posts, lastSelected, reportedVoted, acceptedDiscarded>>

\* The vote button is pressed.
PressVote == VoteButtonEnabled /\ HandleVote

\* handleVote invoked without a selection or without an eventId: a direct
\* call of the handler, as a unit test makes it (the rendered button exists
\* only with a selection).
CallHandleVote ==
  /\ selectedOption = Null \/ eventId = NoEvent
  /\ HandleVote

\* await getAuthToken() of handleVote resolves; with a token the POST is
\* sent with the closure's selectedOption as optionName.
VoteTokenResolve(i, tok) ==
  /\ i \in DOMAIN votes /\ votes[i].pc = "token"
  /\ tok \in GetAuthTokenResults
  /\ IF ~Truthy(tok)
       THEN /\ CanAlert
            /\ alerts' = Append(alerts, "AuthRequired")
            /\ secureVotingMode' = FALSE
            /\ route' = "Signin"
            /\ voting' = FALSE
            /\ votes' = RemoveAt(votes, i)
            /\ posts' = posts
       ELSE /\ votes' = [votes EXCEPT ![i].pc = "post"]
            /\ posts' = Append(posts, [optionName |-> votes[i].option,
                                       atPress |-> votes[i].atPress])
            /\ UNCHANGED <<alerts, secureVotingMode, route, voting>>
  /\ UNCHANGED <<envVars, eventData, loading, error, selectedOption,
                 showCandidates, showConfirmation, hasAlreadyVoted, appState,
                 fetches, token, calls, nullCalls, lastSelected,
                 reportedVoted, acceptedDiscarded>>

\* The responses of POST /event/{id}/vote that handleVote tells apart:
\*   success   resolved
\*   voted400  400 with message "User has already voted"
\*   unauthorized401  rejection with status 401
\*   failure   any other rejection
PostResponses == {"success", "voted400", "unauthorized401", "failure"}

VotePostResolve(i, resp) ==
  /\ i \in DOMAIN votes /\ votes[i].pc = "post"
  /\ resp \in PostResponses
  /\ CASE resp = "success" ->
            /\ CanFetch
            /\ showConfirmation' = TRUE
            /\ fetches' = FetchesAfterCall(fetches)
            /\ loading' = LoadingAfterCall(loading)
            /\ UNCHANGED <<hasAlreadyVoted, alerts>>
       [] resp # "success" /\ IsAlreadyVoted(resp) ->
            /\ hasAlreadyVoted' = TRUE
            /\ UNCHANGED <<showConfirmation, fetches, loading, alerts>>
       [] OTHER ->
            /\ CanAlert
            /\ alerts' = Append(alerts, "VotingError")
            /\ UNCHANGED <<showConfirmation, fetches, loading,
                           hasAlreadyVoted>>
  /\ voting' = FALSE
  /\ votes' = RemoveAt(votes, i)
  /\ reportedVoted' = (reportedVoted \/ resp = "voted400")
  /\ acceptedDiscarded' =
       IF resp = "success" /\ acceptedDiscarded = "none"
         THEN votes[i].discardedBy
         ELSE acceptedDiscarded
  /\ UNCHANGED <<envVars, eventData, error, selectedOption, showCandidates,
                 secureVotingMode, appState, token, route, calls, nullCalls,
                 posts, lastSelected>>

HandleConfirmationClose ==
  /\ showConfirmation' = FALSE
  /\ selectedOption' = Null
  /\ showCandidates' = FALSE
  /\ secureVotingMode' = FALSE

\* The Done button of the confirmation modal.
PressDone ==
  /\ Foreground /\ route = "vote" /\ alerts = <<>> /\ ModalVisible
  /\ HandleConfirmationClose
  /\ UNCHANGED <<envVars, eventData, loading, error, voting, hasAlreadyVoted,
                 appState, alerts, fetches, votes, token, route, histVars>>

\* ---------------------------------------------------------------- alerts
\* The Alert.alert dialogs of the screen and the button that carries the
\* onPress handler ("confirm"); the other button, where there is one, only
\* closes the dialog ("cancel").
\*   EnterVotingMode  enterSecureVotingMode        Cancel / Enter Secure Mode
\*   ExitSecureBack   hardwareBackPress listener   Continue Voting / Exit
\*   Interrupted      handleAppStateChange         OK
\*   ExitEvent        handleExitEvent              Continue Voting / Exit
\*   GoBack           header back button           Continue Voting / Go Back
\*   AuthRequired     handleVote, no token         OK (no handler)
\*   VotingError      handleVote, POST failed      OK (no handler)
AlertKinds == {"EnterVotingMode", "ExitSecureBack", "Interrupted",
               "ExitEvent", "GoBack", "AuthRequired", "VotingError"}

Buttons(kind) ==
  IF kind \in {"Interrupted", "AuthRequired", "VotingError"}
    THEN {"confirm"}
    ELSE {"confirm", "cancel"}

\* The dialogs whose confirm button abandons the voting attempt.
Abandoning == {"ExitSecureBack", "Interrupted", "ExitEvent", "GoBack"}

\* History: the pending handleVote calls belong to an attempt that the
\* dialog `kind` has abandoned; the first abandonment is kept, with the
\* await the call was suspended at.
Discard(vs, kind) ==
  [j \in DOMAIN vs |->
     IF vs[j].discardedBy = "none"
       THEN [vs[j] EXCEPT !.discardedBy = kind, !.discardedAt = vs[j].pc]
       ELSE vs[j]]

\* Variant: the confirm button of "Enter Voting Mode" enters only when the
\* orientation can be locked.
OnConfirmAwaitsLock(kind) ==
  CASE kind = "EnterVotingMode" /\ orientationSupported ->
         /\ secureVotingMode' = TRUE
         /\ showCandidates' = TRUE
         /\ UNCHANGED <<route, votes>>
    [] kind \in {"ExitSecureBack", "Interrupted", "GoBack"} ->
         /\ secureVotingMode' = FALSE
         /\ showCandidates' = FALSE
         /\ votes' = Discard(votes, kind)
         /\ UNCHANGED route
    [] kind = "ExitEvent" ->
         /\ secureVotingMode' = FALSE
         /\ route' = "home"
         /\ votes' = Discard(votes, kind)
         /\ UNCHANGED showCandidates
    [] OTHER ->
         UNCHANGED <<secureVotingMode, showCandidates, route, votes>>
\* The onPress handler of the confirm button of each dialog.
OnConfirm(kind) ==
  CASE kind = "EnterVotingMode" ->
         /\ secureVotingMode' = TRUE
         /\ showCandidates' = TRUE
         /\ UNCHANGED <<route, votes>>
    [] kind \in {"ExitSecureBack", "Interrupted", "GoBack"} ->
         /\ secureVotingMode' = FALSE
         /\ showCandidates' = FALSE
         /\ votes' = Discard(votes, kind)
         /\ UNCHANGED route
    [] kind = "ExitEvent" ->
         /\ secureVotingMode' = FALSE
         /\ route' = "home"
         /\ votes' = Discard(votes, kind)
         /\ UNCHANGED showCandidates
    [] OTHER ->
         UNCHANGED <<secureVotingMode, showCandidates, route, votes>>

\* The user presses a button of an open dialog.
AnswerAlert(i, button) ==
  /\ Foreground
  /\ i \in DOMAIN alerts
  /\ button \in Buttons(alerts[i])
  /\ alerts' = RemoveAt(alerts, i)
  /\ IF button = "confirm"
       THEN OnConfirm(alerts[i])
       ELSE UNCHANGED <<secureVotingMode, showCandidates, route, votes>>
  /\ UNCHANGED <<envVars, eventData, loading, error, selectedOption, voting,
                 showConfirmation, hasAlreadyVoted, appState, fetches, token,
                 histVars>>

\* ---------------------------------------------------------------- enter and exit
\* Variant: the Enter button locks the session without asking.
PressEnterNoPrompt ==
  /\ Touchable /\ View = "details"
  /\ showCandidates' = TRUE
  /\ secureVotingMode' = ~isWeb
  /\ UNCHANGED <<envVars, eventData, loading, error, selectedOption, voting,
                 showConfirmation, hasAlreadyVoted, alerts,
                 appState, fetches, votes, token, route, histVars>>

\* handleEnterEvent, the Enter button of the details view.
PressEnter ==
  /\ Touchable /\ View = "details"
  /\ IF isWeb
       THEN /\ showCandidates' = TRUE
            /\ UNCHANGED alerts
       ELSE /\ CanAlert
            /\ alerts' = Append(alerts, "EnterVotingMode")
            /\ UNCHANGED showCandidates
  /\ UNCHANGED <<envVars, eventData, loading, error, selectedOption, voting,
                 showConfirmation, hasAlreadyVoted, secureVotingMode,
                 appState, fetches, votes, token, route, histVars>>

\* handleExitEvent, the Exit button of the details view and the Return to
\* Home button of the already-voted view.
PressExit ==
  /\ Touchable /\ View \in {"details", "alreadyVoted"}
  /\ IF secureVotingMode
       THEN /\ CanAlert
            /\ alerts' = Append(alerts, "ExitEvent")
            /\ UNCHANGED route
       ELSE /\ route' = "home"
            /\ UNCHANGED alerts
  /\ UNCHANGED <<envVars, screenVars, appState, fetches, votes, token,
                 histVars>>

\* The back arrow in the header of the candidates view.
PressHeaderBack ==
  /\ Touchable /\ View = "candidates"
  /\ IF secureVotingMode
       THEN /\ CanAlert
            /\ alerts' = Append(alerts, "GoBack")
            /\ UNCHANGED showCandidates
       ELSE /\ showCandidates' = FALSE
            /\ UNCHANGED alerts
  /\ UNCHANGED <<envVars, eventData, loading, error, selectedOption, voting,
                 showConfirmation, hasAlreadyVoted, secureVotingMode,
                 appState, fetches, votes, token, route, histVars>>

\* Variant: the listener never consumes the event; the navigator goes back
\* also in secure voting mode.
HardwareBackUnguarded ==
  /\ ~isWeb
  /\ Touchable
  /\ route' = "home"
  /\ UNCHANGED <<envVars, screenVars, appState, alerts, fetches, votes, token,
                 histVars>>
\* The hardwareBackPress listener.  It returns true (event consumed) in
\* secure voting mode and false otherwise, and then the navigator goes back.
HardwareBack ==
  /\ ~isWeb
  /\ Touchable
  /\ IF secureVotingMode
       THEN /\ CanAlert
            /\ alerts' = Append(alerts, "ExitSecureBack")
            /\ UNCHANGED route
       ELSE /\ route' = "home"
            /\ UNCHANGED alerts
  /\ UNCHANGED <<envVars, screenVars, appState, fetches, votes, token,
                 histVars>>

\* ---------------------------------------------------------------- lifecycle
\* Variant: only the background status counts as leaving the application.
InterruptConditionBackgroundOnly(nextAppState) ==
  /\ secureVotingMode
  /\ MatchActive(appState)
  /\ nextAppState = "background"

InterruptCondition(nextAppState) ==
  /\ secureVotingMode
  /\ MatchActive(appState)
  /\ MatchInactiveOrBackground(nextAppState)

\* handleAppStateChange, the AppState 'change' listener.
HandleAppStateChange(nextAppState) ==
  /\ nextAppState \in AppStates /\ nextAppState # appState
  /\ IF InterruptCondition(nextAppState)
       THEN /\ CanAlert
            /\ alerts' = Append(alerts, "Interrupted")
       ELSE UNCHANGED alerts
  /\ appState' = nextAppState
  /\ UNCHANGED <<envVars, screenVars, fetches, votes, token, route,
                 histVars>>

\* ---------------------------------------------------------------- other screens
\* The other screens receive presses while the application is active and no
\* native dialog is open.
\* handleSignin of the sign-in screen succeeds: the token is stored and the
\* router replaces the route by "/".
HandleSignin ==
  /\ Foreground /\ alerts = <<>>
  /\ route = "Signin"
  /\ \E t \in Tokens : token' = t
  /\ route' = "home"
  /\ UNCHANGED <<envVars, screenVars, appState, alerts, fetches, votes,
                 histVars>>

\* The user opens the profile tab from the home screen and confirms its
\* Logout dialog: clearAuthData removes the token and the router replaces
\* the route by the sign-in route.
Logout ==
  /\ Foreground /\ alerts = <<>>
  /\ route = "home"
  /\ token # NoToken
  /\ token' = NoToken
  /\ route' = "Signin"
  /\ UNCHANGED <<envVars, screenVars, appState, alerts, fetches, votes,
                 histVars>>

\* The home screen pushes /vote with the same session code; the tab's screen
\* has stayed mounted and keeps its state.
OpenVote ==
  /\ Foreground /\ alerts = <<>>
  /\ route = "home"
  /\ route' = "vote"
  /\ UNCHANGED <<envVars, screenVars, appState, alerts, fetches, votes,
                 token, histVars>>

\* ---------------------------------------------------------------- guards
\* The routes useAuthProtection does not protect.
publicRoutes == {"Signin", "register", "(tabs)"}

\* segments[segments.length - 1]: the home tab is the index route of the
\* (tabs) group, every other screen is a file of the group.
CurrentRoute(r) == IF r = "home" THEN "(tabs)" ELSE r

IsPublicRoute(r) == CurrentRoute(r) \in publicRoutes

\* isAuthenticated of the guard module: !!token, false when the read throws.
IsAuthenticated(outcome) ==
  LET tok == GetAuthToken(outcome)
  IN  IF tok = Thrown THEN FALSE ELSE Truthy(tok)

\* isAuthenticated of the storage module: token !== null.
AuthStorageIsAuthenticated(outcome) == GetAuthToken(outcome) # NoToken

\* getUserData: the cached user, or null when the store's read throws.
GetUserData(outcome) == IF outcome = "throws" THEN NoUser ELSE cachedUser

\* The number of pending runs of checkAuthStatus.
NumChecks(cs) ==
  cs["vote"] + cs["home"] + cs["Signin"] + cs["register"] + cs["profile"]

\* The pending runs without one that has captured route r.
WithoutCheck(cs, r) == [cs EXCEPT ![r] = cs[r] - 1]

\* The effect of useAuthProtection has segments among its dependencies: a
\* change of the route starts a run of checkAuthStatus, which keeps the
\* segments of that render.
ChecksAfter(cs, r) == IF r # route THEN [cs EXCEPT ![r] = cs[r] + 1] ELSE cs

\* A tab's screen is mounted when the tab is first shown and stays mounted;
\* the mount effect of AuthProtectedScreen starts its checkAuth.
ScreenCheckAfter(r) ==
  IF r = "profile" /\ screenCheck = "unmounted" THEN "checking"
                                                 ELSE screenCheck

\* router.replace: the entry of the shown route gives way to route r.  The
\* empty sequence stands for a history that is not recorded.
Replace(h, r) == IF h = <<>> THEN h ELSE [h EXCEPT ![Len(h)] = r]

\* router.push: route r gets an entry of its own above the shown route.
PushEntry(h, r) == IF h = <<>> THEN h ELSE Append(h, r)

\* Variant: the guards redirect with router.push.
RedirectByPush(cs) ==
  /\ NumChecks(ChecksAfter(cs, "Signin")) <= MaxInFlight
  /\ route' = "Signin"
  /\ history' = PushEntry(history, "Signin")
  /\ authChecks' = ChecksAfter(cs, "Signin")
  /\ redirects' = redirects + 1
\* router.replace("/Signin") issued by a guard check, cs being the runs of
\* checkAuthStatus that stay pending.
Redirect(cs) ==
  /\ NumChecks(ChecksAfter(cs, "Signin")) <= MaxInFlight
  /\ route' = "Signin"
  /\ history' = Replace(history, "Signin")
  /\ authChecks' = ChecksAfter(cs, "Signin")
  /\ redirects' = redirects + 1

\* The user navigates to route r.
UserNavigate(r) ==
  /\ NumChecks(ChecksAfter(authChecks, r)) <= MaxInFlight
  /\ route' = r
  /\ authChecks' = ChecksAfter(authChecks, r)
  /\ screenCheck' = ScreenCheckAfter(r)
  /\ redirects' = 0

\* The application accepts navigation: the root layout renders the stack
\* and no native dialog is open.
CanNavigate == ~isLoading /\ ~logoutAlert

\* needsAuth of checkAuthStatus for the route r of its render: the token
\* is falsy and the route is not public; a read that throws lands in the
\* catch block, which redirects nowhere.
NeedsAuth(r, outcome) ==
  LET tok == GetAuthToken(outcome)
  IN  /\ tok # Thrown
      /\ ~Truthy(tok)
      /\ ~IsPublicRoute(r)

\* A run of checkAuthStatus (useAuthProtection) completes.  The root layout
\* renders the stack, and with it the tab layout and the screen of the
\* route, once isLoading is false.
CheckAuthStatusResolve(r, outcome) ==
  /\ r \in Routes /\ authChecks[r] > 0
  /\ outcome \in StoreOutcomes
  /\ IF NeedsAuth(r, outcome)
       THEN Redirect(WithoutCheck(authChecks, r))
       ELSE /\ authChecks' = WithoutCheck(authChecks, r)
            /\ UNCHANGED <<route, history, redirects>>
  /\ isLoading' = FALSE
  /\ tabLayout' = IF tabLayout = "unmounted" THEN "checking" ELSE tabLayout
  /\ screenCheck' = ScreenCheckAfter(route')
  /\ UNCHANGED <<eventId, isWeb, orientationSupported, screenVars,
                 appState, alerts, fetches,
                 votes, token, histVars, cachedUser, canGoBack,
                 screenIsAuthenticated, profile, profileLoading,
                 profileError, profileFetch, logoutAlert, clears, signedOut>>

\* checkAuth of TabLayout completes.
TabCheckResolve(outcome) ==
  /\ tabLayout = "checking"
  /\ outcome \in StoreOutcomes
  /\ tabLayout' = "checked"
  /\ IF ~IsAuthenticated(outcome) /\ canGoBack = FALSE
       THEN Redirect(authChecks)
       ELSE UNCHANGED <<route, history, authChecks, redirects>>
  /\ UNCHANGED <<eventId, isWeb, orientationSupported, screenVars,
                 appState, alerts, fetches,
                 votes, token, histVars, cachedUser, isLoading, canGoBack,
                 screenCheck, screenIsAuthenticated, profile, profileLoading,
                 profileError, profileFetch, logoutAlert, clears, signedOut>>

\* checkAuth of AuthProtectedScreen reaches setIsAuthenticated(true): the
\* token is truthy and the read has not thrown.
ScreenAdmits(outcome) ==
  LET tok == GetAuthToken(outcome)
  IN  tok # Thrown /\ Truthy(tok)

\* checkAuth of AuthProtectedScreen completes.  With a token the children
\* are rendered: ProfileContent mounts and its effect calls
\* fetchUserProfile, which runs to its first await.
ScreenCheckResolve(outcome) ==
  /\ screenCheck = "checking"
  /\ outcome \in StoreOutcomes
  /\ screenCheck' = "done"
  /\ IF ~ScreenAdmits(outcome)
       THEN /\ Redirect(authChecks)
            /\ UNCHANGED <<screenIsAuthenticated, profileLoading,
                           profileError, profileFetch>>
       ELSE /\ screenIsAuthenticated' = TRUE
            /\ profileLoading' = TRUE
            /\ profileError' = FALSE
            /\ profileFetch' = "userData"
            /\ UNCHANGED <<route, history, authChecks, redirects>>
  /\ UNCHANGED <<eventId, isWeb, orientationSupported, screenVars,
                 appState, alerts, fetches,
                 votes, token, histVars, cachedUser, isLoading, canGoBack,
                 tabLayout, profile, logoutAlert, clears, signedOut>>

\* ---------------------------------------------------------------- profile screen
\* The number of pending clearAuthData calls.
NumClears(cl) ==
  cl[[by |-> "profile", pc |-> "token"]] + cl[[by |-> "profile", pc |-> "user"]]
  + cl[[by |-> "logout", pc |-> "token"]] + cl[[by |-> "logout", pc |-> "user"]]

CanClear == NumClears(clears) < MaxInFlight

WithClear(cl, c) == [cl EXCEPT ![c] = cl[c] + 1]

WithoutClear(cl, c) == [cl EXCEPT ![c] = cl[c] - 1]

\* await getUserData() of fetchUserProfile resolves.
ProfileUserDataResolve(outcome) ==
  /\ profileFetch = "userData"
  /\ outcome \in StoreOutcomes
  /\ profile' = IF GetUserData(outcome) # NoUser THEN GetUserData(outcome)
                                                ELSE profile
  /\ profileFetch' = "token"
  /\ UNCHANGED <<eventId, isWeb, orientationSupported, screenVars,
                 appState, alerts, fetches,
                 votes, token, route, history, histVars, cachedUser, isLoading,
                 authChecks, canGoBack, tabLayout, screenCheck,
                 screenIsAuthenticated, profileLoading, profileError,
                 logoutAlert, clears, redirects, signedOut>>

\* await getAuthToken() of fetchUserProfile resolves.
ProfileTokenResolve(outcome) ==
  /\ profileFetch = "token"
  /\ outcome \in StoreOutcomes
  /\ LET tok == GetAuthToken(outcome)
     IN  CASE tok = Thrown ->
                /\ profileError' = TRUE
                /\ profileLoading' = FALSE
                /\ profileFetch' = "done"
                /\ UNCHANGED <<route, history, authChecks, redirects>>
           [] tok # Thrown /\ ~Truthy(tok) ->
                /\ profileError' = TRUE
                /\ Redirect(authChecks)
                /\ profileLoading' = FALSE
                /\ profileFetch' = "done"
           [] OTHER ->
                /\ profileFetch' = "get"
                /\ UNCHANGED <<profileError, profileLoading, route, history,
                               authChecks, redirects>>
  /\ UNCHANGED <<eventId, isWeb, orientationSupported, screenVars,
                 appState, alerts, fetches,
                 votes, token, histVars, cachedUser, isLoading, canGoBack,
                 tabLayout, screenCheck, screenIsAuthenticated, profile,
                 logoutAlert, clears, signedOut>>

\* The responses of GET /auth/profile/ that fetchUserProfile tells apart:
\*   ok               200 with data.user
\*   invalid          200 without data.user
\*   unauthorized401  rejection with status 401
\*   failure          any other rejection
ProfileResponses == {"ok", "invalid", "unauthorized401", "failure"}

\* await axios.get of fetchUserProfile resolves.  storeUserData is called
\* in the same step and its write reaches the store in the order of the
\* calls, so the write belongs to this step; storeUserData rethrows the
\* store's failure into the catch block.
ProfileGetResolve(resp, outcome) ==
  /\ profileFetch = "get"
  /\ resp \in ProfileResponses
  /\ outcome \in StoreOutcomes
  /\ CASE resp = "ok" ->
            /\ profile' = "user"
            /\ cachedUser' = IF outcome = "ok" THEN "user" ELSE cachedUser
            /\ profileError' = IF outcome = "ok" THEN profileError ELSE TRUE
            /\ profileLoading' = FALSE
            /\ profileFetch' = "done"
            /\ UNCHANGED clears
       [] resp = "unauthorized401" ->
            /\ CanClear
            /\ profileError' = TRUE
            /\ profileFetch' = "clear"
            /\ clears' = WithClear(clears, [by |-> "profile", pc |-> "token"])
            /\ UNCHANGED <<profile, profileLoading, cachedUser>>
       [] OTHER ->
            /\ profileError' = TRUE
            /\ profileLoading' = FALSE
            /\ profileFetch' = "done"
            /\ UNCHANGED <<profile, clears, cachedUser>>
  /\ UNCHANGED <<eventId, isWeb, orientationSupported, screenVars,
                 appState, alerts, fetches,
                 votes, token, route, history, histVars, isLoading, authChecks,
                 canGoBack, tabLayout, screenCheck, screenIsAuthenticated,
                 logoutAlert, redirects, signedOut>>

\* ProfileContent shows the profile with its Logout button.
ProfileContentShown ==
  /\ route = "profile" /\ ~isLoading
  /\ screenCheck = "done" /\ screenIsAuthenticated
  /\ ~(profileLoading /\ profile = NoUser)
  /\ ~(profileError /\ profile = NoUser)

\* handleLogout: the Logout button opens the dialog.
HandleLogout ==
  /\ ProfileContentShown /\ ~logoutAlert
  /\ logoutAlert' = TRUE
  /\ UNCHANGED <<eventId, isWeb, orientationSupported, screenVars,
                 appState, alerts, fetches,
                 votes, token, route, history, histVars, cachedUser, isLoading,
                 authChecks, canGoBack, tabLayout, screenCheck,
                 screenIsAuthenticated, profile, profileLoading,
                 profileError, profileFetch, clears, redirects, signedOut>>

\* A button of the Logout dialog is pressed; the Logout button's onPress
\* runs to its await clearAuthData().
AnswerLogout(button) ==
  /\ logoutAlert
  /\ button \in {"confirm", "cancel"}
  /\ logoutAlert' = FALSE
  /\ IF button = "confirm"
       THEN /\ CanClear
            /\ clears' = WithClear(clears, [by |-> "logout", pc |-> "token"])
       ELSE UNCHANGED clears
  /\ UNCHANGED <<eventId, isWeb, orientationSupported, screenVars,
                 appState, alerts, fetches,
                 votes, token, route, history, histVars, cachedUser, isLoading,
                 authChecks, canGoBack, tabLayout, screenCheck,
                 screenIsAuthenticated, profile, profileLoading,
                 profileError, profileFetch, redirects, signedOut>>

\* ---------------------------------------------------------------- clearAuthData
\* The caller of clearAuthData continues after its await: router.replace
\* to the sign-in route; fetchUserProfile then runs its finally block.
ClearDone(c) ==
  /\ NumChecks(ChecksAfter(authChecks, "Signin")) <= MaxInFlight
  /\ route' = "Signin"
  /\ history' = Replace(history, "Signin")
  /\ authChecks' = ChecksAfter(authChecks, "Signin")
  /\ clears' = WithoutClear(clears, c)
  /\ signedOut' = (signedOut \/ c.by = "logout")
  /\ IF c.by = "profile"
       THEN profileLoading' = FALSE /\ profileFetch' = "done"
       ELSE UNCHANGED <<profileLoading, profileFetch>>

\* clearAuthData rethrows the store's failure: the caller's await rejects,
\* fetchUserProfile runs its finally block, nothing else follows.
ClearThrown(c) ==
  /\ clears' = WithoutClear(clears, c)
  /\ IF c.by = "profile"
       THEN profileLoading' = FALSE /\ profileFetch' = "done"
       ELSE UNCHANGED <<profileLoading, profileFetch>>
  /\ UNCHANGED <<route, history, authChecks, signedOut>>

\* A step of a pending clearAuthData call.  On the web both items are
\* removed from localStorage in one synchronous block; on the native
\* platforms the token is deleted, then the user data, each with an await.
ClearResolve(c, outcome) ==
  /\ c \in ClearCalls /\ clears[c] > 0
  /\ outcome \in StoreOutcomes
  /\ CASE outcome = "throws" ->
            /\ ClearThrown(c)
            /\ UNCHANGED <<token, cachedUser>>
       [] outcome = "ok" /\ isWeb ->
            /\ token' = NoToken
            /\ cachedUser' = NoUser
            /\ ClearDone(c)
       [] outcome = "ok" /\ ~isWeb /\ c.pc = "token" ->
            /\ token' = NoToken
            /\ clears' = WithClear(WithoutClear(clears, c),
                                   [c EXCEPT !.pc = "user"])
            /\ UNCHANGED <<cachedUser, route, history, authChecks, signedOut,
                           profileLoading, profileFetch>>
       [] outcome = "ok" /\ ~isWeb /\ c.pc = "user" ->
            /\ cachedUser' = NoUser
            /\ ClearDone(c)
            /\ UNCHANGED token
  /\ UNCHANGED <<eventId, isWeb, orientationSupported, screenVars,
                 appState, alerts, fetches,
                 votes, histVars, isLoading, canGoBack, tabLayout,
                 screenCheck, screenIsAuthenticated, profile, profileError,
                 logoutAlert, redirects>>

\* ---------------------------------------------------------------- navigation
\* A button of the tab bar is pressed (the bar shows Home and Profile).
PressTab(r) ==
  /\ CanNavigate
  /\ r \in {"home", "profile"} /\ r # route
  /\ UserNavigate(r)
  /\ history' = Replace(history, r)
  /\ UNCHANGED <<eventId, isWeb, orientationSupported, screenVars,
                 appState, alerts, fetches,
                 votes, token, histVars, cachedUser, isLoading, canGoBack,
                 tabLayout, screenIsAuthenticated, profile, profileLoading,
                 profileError, profileFetch, logoutAlert, clears, signedOut>>

\* router.push of a screen: handleEnterSession of the home screen pushes
\* /vote, the sign-in screen pushes /register, the register screen pushes
\* /Signin.
Pushes == {<<"home", "vote">>, <<"Signin", "register">>,
           <<"register", "Signin">>}

Push(from, to) ==
  /\ CanNavigate
  /\ <<from, to>> \in Pushes /\ route = from
  /\ Len(history) < MaxHistory
  /\ UserNavigate(to)
  /\ history' = PushEntry(history, to)
  /\ canGoBack' = TRUE
  /\ UNCHANGED <<eventId, isWeb, orientationSupported, screenVars,
                 appState, alerts, fetches,
                 votes, token, histVars, cachedUser, isLoading, tabLayout,
                 screenIsAuthenticated, profile, profileLoading,
                 profileError, profileFetch, logoutAlert, clears, signedOut>>

\* Back navigation (the header's back button of the stack, the back
\* gesture, hardware back): the router shows the entry below.
GoBack ==
  /\ CanNavigate
  /\ Len(history) > 1
  /\ LET h == SubSeq(history, 1, Len(history) - 1)
     IN  /\ UserNavigate(Last(h))
         /\ history' = h
         /\ canGoBack' = (Len(h) > 1)
  /\ UNCHANGED <<eventId, isWeb, orientationSupported, screenVars,
                 appState, alerts, fetches,
                 votes, token, histVars, cachedUser, isLoading, tabLayout,
                 screenIsAuthenticated, profile, profileLoading,
                 profileError, profileFetch, logoutAlert, clears, signedOut>>

\* handleSignin of the sign-in screen succeeds: the token is stored, the
\* user too when the response carries one, and the router replaces the
\* route by "/".
Signin(t, withUser) ==
  /\ CanNavigate
  /\ route = "Signin"
  /\ t \in Tokens /\ withUser \in BOOLEAN
  /\ token' = t
  /\ cachedUser' = IF withUser THEN "user" ELSE cachedUser
  /\ UserNavigate("home")
  /\ history' = Replace(history, "home")
  /\ signedOut' = FALSE
  /\ UNCHANGED <<eventId, isWeb, orientationSupported, screenVars,
                 appState, alerts, fetches,
                 votes, histVars, isLoading, canGoBack, tabLayout,
                 screenIsAuthenticated, profile, profileLoading,
                 profileError, profileFetch, logoutAlert, clears>>

\* The routes the application is launched at: "/" or a linked screen.
LaunchRoutes == {"home", "profile"}

\* The application is launched: the root layout shows its loading view
\* while the first run of checkAuthStatus is pending; nothing else is
\* mounted.
GuardLaunch ==
  /\ eventId = NoEvent
  /\ isWeb \in BOOLEAN
  /\ orientationSupported = ~isWeb
  /\ VoteScreenInit
  /\ route \in LaunchRoutes
  /\ isLoading = TRUE
  /\ authChecks = [NoChecks EXCEPT ![route] = 1]
  /\ canGoBack = FALSE
  /\ tabLayout = "unmounted"
  /\ screenCheck = "unmounted"
  /\ screenIsAuthenticated = FALSE
  /\ profile = NoUser
  /\ profileLoading = TRUE
  /\ profileError = FALSE
  /\ profileFetch = "unmounted"
  /\ logoutAlert = FALSE
  /\ clears = NoClears
  /\ redirects = 0
  /\ signedOut = FALSE

\* The application launched signed in or signed out; the router's history
\* is not recorded.
GuardInit ==
  /\ GuardLaunch
  /\ token \in Tokens \cup {NoToken}
  /\ cachedUser \in IF token = NoToken THEN {NoUser} ELSE {NoUser, "user"}
  /\ history = <<>>

GuardNext ==
  \/ \E r \in Routes, o \in StoreOutcomes : CheckAuthStatusResolve(r, o)
  \/ \E o \in StoreOutcomes : TabCheckResolve(o)
  \/ \E o \in StoreOutcomes : ScreenCheckResolve(o)
  \/ \E o \in StoreOutcomes : ProfileUserDataResolve(o)
  \/ \E o \in StoreOutcomes : ProfileTokenResolve(o)
  \/ \E resp \in ProfileResponses, o \in StoreOutcomes :
       ProfileGetResolve(resp, o)
  \/ HandleLogout
  \/ \E b \in {"confirm", "cancel"} : AnswerLogout(b)
  \/ \E c \in ClearCalls, o \in StoreOutcomes : ClearResolve(c, o)
  \/ \E r \in {"home", "profile"} : PressTab(r)
  \/ \E p \in Pushes : Push(p[1], p[2])
  \/ \E t \in Tokens, u \in BOOLEAN : Signin(t, u)

GuardSpec == GuardInit /\ [][GuardNext]_vars

\* The application launched signed out, with the router's history recorded
\* and back navigation among the steps.  The guards and the router have no
\* platform branch; the web is taken, where clearAuthData is one step.
NavInit ==
  /\ GuardLaunch
  /\ isWeb
  /\ token = NoToken
  /\ cachedUser = NoUser
  /\ history = <<route>>

\* The application launched with each content the token slot can have.
SlotInit ==
  /\ GuardLaunch
  /\ token \in SlotContents
  /\ cachedUser = NoUser
  /\ history = <<>>

SlotSpec == SlotInit /\ [][GuardNext]_vars

NavNext == GuardNext \/ GoBack

NavSpec == NavInit /\ [][NavNext]_vars

\* ---------------------------------------------------------------- specification
WebNext ==
  \/ PressRetry
  \/ \E i \in DOMAIN fetches, tok \in GetAuthTokenResults :
       FetchTokenResolve(i, tok)
  \/ \E i \in DOMAIN fetches, resp \in GetResponses : FetchGetResolve(i, resp)
  \/ \E o \in Options : SelectOption(o)
  \/ PressVote
  \/ \E i \in DOMAIN votes, tok \in GetAuthTokenResults :
       VoteTokenResolve(i, tok)
  \/ \E i \in DOMAIN votes, resp \in PostResponses : VotePostResolve(i, resp)
  \/ PressDone
  \/ \E i \in DOMAIN alerts, b \in {"confirm", "cancel"} : AnswerAlert(i, b)
  \/ PressEnter
  \/ PressExit
  \/ PressHeaderBack
  \/ \E s \in AppStates : HandleAppStateChange(s)
  \/ HandleSignin
  \/ Logout
  \/ OpenVote

\* The native platforms add the hardware back button.
Next == WebNext \/ HardwareBack

Spec == Init /\ [][Next]_vars

\* The handlers driven directly as well as through the rendered views.
NextDirect == Next \/ CallHandleVote

SpecDirect == Init /\ [][NextDirect]_vars

\* The vote screen on the platforms that lack the hooks.
DegradedSpec == DegradedInit /\ [][Next]_vars

TypeOK ==
  /\ eventId \in EventIds
  /\ isWeb \in BOOLEAN
  /\ orientationSupported \in BOOLEAN
  /\ eventData \in {NoData, "event"}
  /\ loading \in BOOLEAN
  /\ error \in {NoError, "noSession", "signin", "invalid", "failed"}
  /\ selectedOption \in Options \cup {Null}
  /\ showCandidates \in BOOLEAN
  /\ voting \in BOOLEAN
  /\ showConfirmation \in BOOLEAN
  /\ hasAlreadyVoted \in BOOLEAN
  /\ secureVotingMode \in BOOLEAN
  /\ appState \in AppStates
  /\ alerts \in Seq(AlertKinds)
  /\ \A i \in DOMAIN fetches : fetches[i].pc \in {"token", "get"}
  /\ \A i \in DOMAIN votes :
       /\ votes[i].pc \in {"token", "post"}
       /\ votes[i].option \in Options
       /\ votes[i].discardedBy \in Abandoning \cup {"none"}
       /\ votes[i].discardedAt \in {"none", "token", "post"}
  /\ calls \in 0..MaxVoteCalls
  /\ nullCalls \in 0..calls
  /\ \A i \in DOMAIN posts : posts[i].optionName \in Options
  /\ lastSelected \in Options \cup {Null}
  /\ reportedVoted \in BOOLEAN
  /\ acceptedDiscarded \in Abandoning \cup {"none"}
  /\ token \in SlotContents
  /\ route \in Routes
  /\ cachedUser \in {NoUser, "user"}
  /\ isLoading \in BOOLEAN
  /\ authChecks \in [Routes -> 0..MaxInFlight]
  /\ NumChecks(authChecks) <= MaxInFlight
  /\ canGoBack \in BOOLEAN
  /\ history \in Seq(Routes) /\ Len(history) <= MaxHistory
  /\ tabLayout \in {"unmounted", "checking", "checked"}
  /\ screenCheck \in {"unmounted", "checking", "done"}
  /\ screenIsAuthenticated \in BOOLEAN
  /\ profile \in {NoUser, "user"}
  /\ profileLoading \in BOOLEAN
  /\ profileError \in BOOLEAN
  /\ profileFetch \in
       {"unmounted", "userData", "token", "get", "clear", "done"}
  /\ logoutAlert \in BOOLEAN
  /\ clears \in [ClearCalls -> 0..MaxInFlight]
  /\ NumClears(clears) <= MaxInFlight
  /\ redirects \in Nat
  /\ signedOut \in BOOLEAN

\* ---------------------------------------------------------------- phases
\* The phases of the voting session in terms of the screen's flags.
AlreadyVoted == hasAlreadyVoted
Confirmed == showConfirmation
Submitting == voting
SelectingOption ==
  showCandidates /\ ~voting /\ ~showConfirmation /\ ~hasAlreadyVoted
PreEntry == ~secureVotingMode /\ ~showCandidates

\* An option row can be pressed.
CanSelect == Touchable /\ View = "candidates"

Count(kind, s) == Cardinality({i \in DOMAIN s : s[i] = kind})

\* The step completes the POST of the pending handleVote call i.
PostResolved(i) ==
  /\ i \in DOMAIN votes
  /\ votes[i].pc = "post"
  /\ votes' = RemoveAt(votes, i)

\* ---------------------------------------------------------------- claims
\* C1: when the POST of an attempt that was abandoned while the POST was in
\* flight (interruption acknowledged, hardware back confirmed) resolves, the
\* screen does not change: showConfirmation and hasAlreadyVoted keep their
\* values and the session stays in PreEntry.
C1_LateResultIgnored ==
  [][\A i \in DOMAIN votes :
       (PostResolved(i) /\ votes[i].discardedAt = "post"
          /\ votes[i].discardedBy \in {"Interrupted", "ExitSecureBack"})
       => /\ showConfirmation' = showConfirmation
          /\ hasAlreadyVoted' = hasAlreadyVoted
          /\ (PreEntry => PreEntry')]_vars

\* C2: in every reachable state, AlreadyVoted or Confirmed implies that the
\* lock is released and that no option can be selected.
C2_TerminalReleased ==
  (AlreadyVoted \/ Confirmed) => (~secureVotingMode /\ ~CanSelect)

\* C3: at most one handleVote call is pending at any time, and voting is
\* true while one is pending.
C3_OneOutstandingSubmit ==
  /\ Len(votes) <= 1
  /\ (votes # <<>>) => voting

\* C3 witness: a submit is in flight while the screen shows the candidates
\* with a selection and accepts presses, a further call being within the
\* bound.
C3_Witness ==
  /\ Len(votes) = 1 /\ votes[1].pc = "post"
  /\ Touchable /\ View = "candidates" /\ selectedOption # Null
  /\ calls < MaxVoteCalls

\* C4: once the API has reported "already voted" (GET with hasVoted, GET or
\* POST rejected with 400 "User has already voted"), hasAlreadyVoted is true
\* and stays true, and no handleVote call starts and no vote POST is sent.
C4_AlreadyVotedIsFinal ==
  /\ [](reportedVoted => hasAlreadyVoted)
  /\ [][hasAlreadyVoted => hasAlreadyVoted']_vars
  /\ [][reportedVoted => (posts' = posts /\ Len(votes') <= Len(votes))]_vars

\* C4 witness: "already voted" was reported on the POST of a session whose
\* candidates list and selection are still set, and the user is at the
\* screen with a further call within the bound.
C4_Witness ==
  /\ reportedVoted /\ posts # <<>>
  /\ showCandidates /\ selectedOption # Null
  /\ Foreground /\ route = "vote" /\ alerts = <<>> /\ ~loading
  /\ calls < MaxVoteCalls

\* C5: selectedOption is set to an option only in Locked/SelectingOption:
\* not while a submit is in flight, not in PreEntry, Confirmed or
\* AlreadyVoted.  (The reset to null on leaving Confirmed is not a
\* selection.)
C5_SelectOnlyWhileSelecting ==
  [][(selectedOption' # selectedOption /\ selectedOption' # Null)
       => SelectingOption]_vars

C7_NoVoteOfDiscardedAttempt ==
  acceptedDiscarded \notin {"Interrupted", "ExitSecureBack"}

\* C8: while the session is Confirmed the confirmation names the option that
\* was sent in the last POST, and the refresh of the event data does not take
\* the screen to the already-voted or the error view.
C8_RoundTrip ==
  Confirmed =>
    /\ posts # <<>> /\ selectedOption = Last(posts).optionName
    /\ View \in {"loading", "candidates", "details"}

\* C9: the optionName of every vote POST is the option of the latest
\* selection made before the submit.
C9_LastSelectionSubmitted ==
  \A i \in DOMAIN posts : posts[i].optionName = posts[i].atPress

\* C9 witness: two POSTs with different options, the second after a
\* reselection.
C9_Witness ==
  /\ Len(posts) = 2
  /\ posts[1].optionName # posts[2].optionName

\* C10: a handleVote call without a selected option or without an eventId
\* starts no credential read, sends no POST and leaves voting,
\* showConfirmation and hasAlreadyVoted unchanged.
C10_NullSubmitRejected ==
  [][(calls' = calls + 1
        /\ (selectedOption = Null \/ eventId = NoEvent))
       => UNCHANGED <<votes, posts, fetches, voting, showConfirmation,
                      hasAlreadyVoted>>]_vars

\* C10 witness: handleVote has been called with selectedOption null on a
\* screen that has an eventId and a loaded event.
C10_Witness ==
  /\ nullCalls > 0
  /\ eventId # NoEvent /\ eventData # NoData
  /\ ~voting /\ posts = <<>>

\* C11: when the POST of a handleVote call is rejected with anything other
\* than 400 "User has already voted", the call ends with voting false, the
\* "Voting Error" dialog is raised, and secureVotingMode, showCandidates,
\* selectedOption, hasAlreadyVoted and showConfirmation keep their values:
\* a locked session that was submitting is in SelectingOption again.
C11_SubmitFailureReturnsToSelecting ==
  [][\A i \in DOMAIN votes :
       \A resp \in PostResponses \ {"success", "voted400"} :
         VotePostResolve(i, resp)
         => /\ ~voting'
            /\ Count("VotingError", alerts') = Count("VotingError", alerts) + 1
            /\ UNCHANGED <<secureVotingMode, showCandidates, selectedOption,
                           hasAlreadyVoted, showConfirmation>>
            /\ (secureVotingMode /\ showCandidates /\ ~hasAlreadyVoted
                  /\ ~showConfirmation)
               => (secureVotingMode' /\ SelectingOption')]_vars

\* C11 witness: the POST of a locked session has failed; the dialog is open
\* and the session is locked in SelectingOption with its selection.
C11_Witness ==
  /\ Count("VotingError", alerts) = 1
  /\ posts # <<>> /\ votes = <<>>
  /\ secureVotingMode /\ SelectingOption
  /\ selectedOption = Last(posts).optionName
  /\ ~reportedVoted

\* C12: when the GET of fetchEventData or the POST of handleVote is rejected
\* with status 401, the credential store is cleared (no token is stored
\* afterwards) and the router is sent to the sign-in route.
C12_UnauthorizedClearsAndRedirects ==
  [][/\ \A i \in DOMAIN fetches :
          FetchGetResolve(i, "unauthorized401")
          => (token' = NoToken /\ route' = "Signin")
     /\ \A i \in DOMAIN votes :
          VotePostResolve(i, "unauthorized401")
          => (token' = NoToken /\ route' = "Signin")]_vars

\* C13: while no token is stored, the guard checks (checkAuthStatus of
\* useAuthProtection, TabLayout's checkAuth, AuthProtectedScreen's
\* checkAuth, the screen's own token check) issue router.replace("/Signin")
\* at most once in all between two navigations of the user.
C13_RedirectOnce == (token = NoToken) => (redirects <= 1)

\* C14: a guard check that completes for a public route (Signin, register,
\* the (tabs) index) leaves the route as it is, with or without a stored
\* token;
\* checkAuthStatus completing for any other route without a stored token
\* replaces the route by the sign-in route.
C14_PublicRoutesNotGated ==
  [][/\ \A r \in Routes :
          (CheckAuthStatusResolve(r, "ok") /\ IsPublicRoute(r))
          => route' = route
     /\ (TabCheckResolve("ok") /\ IsPublicRoute(route))
          => route' = route
     /\ \A r \in Routes :
          (CheckAuthStatusResolve(r, "ok") /\ token = NoToken
             /\ ~IsPublicRoute(r))
          => (route' = "Signin" /\ redirects' = redirects + 1)]_vars

\* C15: a guard check whose read of the credential store throws decides as
\* it does without a token and throws nothing: checkAuthStatus for a route
\* off the allow-list and checkAuth of AuthProtectedScreen replace the
\* route by the sign-in route, AuthProtectedScreen does not render its
\* children, isAuthenticated gives false (TabLayout redirects on it when
\* the router cannot go back), and getAuthToken gives null.
C15_ReadFailureFailsClosed ==
  [][/\ \A r \in Routes :
          (CheckAuthStatusResolve(r, "throws") /\ ~IsPublicRoute(r))
          => (route' = "Signin" /\ redirects' = redirects + 1)
     /\ ScreenCheckResolve("throws")
          => /\ route' = "Signin" /\ redirects' = redirects + 1
             /\ ~screenIsAuthenticated'
             /\ profileFetch' = profileFetch
     /\ (TabCheckResolve("throws") /\ ~canGoBack)
          => (route' = "Signin" /\ redirects' = redirects + 1)
     /\ ~IsAuthenticated("throws")
     /\ GetAuthToken("throws") = NoToken]_vars

\* C15 witness: a token is stored, the profile screen was opened, and the
\* guards have sent the router to the sign-in route without rendering the
\* profile.
C15_Witness ==
  /\ token # NoToken
  /\ route = "Signin" /\ redirects > 0
  /\ screenCheck = "done" /\ ~screenIsAuthenticated
  /\ authChecks = NoChecks

\* C16: while no token is stored, the credential read of fetchEventData and
\* of handleVote ends the call on the spot: no GET and no POST is sent, the
\* router replaces the route by the sign-in route, fetchEventData ends with
\* loading false, handleVote with voting false and secureVotingMode false.
C16_MissingTokenShortCircuits ==
  [][token = NoToken
       => /\ \A i \in DOMAIN fetches : \A tok \in GetAuthTokenResults :
               FetchTokenResolve(i, tok)
               => /\ fetches' = RemoveAt(fetches, i)
                  /\ route' = "Signin"
                  /\ ~loading'
          /\ \A i \in DOMAIN votes : \A tok \in GetAuthTokenResults :
               VoteTokenResolve(i, tok)
               => /\ votes' = RemoveAt(votes, i)
                  /\ posts' = posts
                  /\ route' = "Signin"
                  /\ ~voting'
                  /\ ~secureVotingMode']_vars

\* C16 witness: the event was loaded with a token, the token was removed
\* by a logout, and the only handleVote call has ended at its credential
\* read, without a POST.
C16_Witness ==
  /\ token = NoToken /\ route = "Signin"
  /\ eventData # NoData /\ error = NoError
  /\ calls = 1 /\ nullCalls = 0 /\ posts = <<>> /\ votes = <<>>
  /\ Count("AuthRequired", alerts) = 1
  /\ ~voting /\ ~secureVotingMode

\* C17: when the GET of fetchEventData is rejected with 400 "User has
\* already voted", the screen is in the AlreadyVoted state and shows the
\* already-voted view, not the error or retry view.
C17_AlreadyVotedOnLoad ==
  [][\A i \in DOMAIN fetches :
       FetchGetResolve(i, "voted400")
       => (AlreadyVoted' /\ View' = "alreadyVoted")]_vars

\* C18: when a fetch has failed (error view with its retry button) and a
\* later GET of fetchEventData succeeds, the screen no longer shows the
\* error view.
C18_RetryLeavesErrorView ==
  [][\A i \in DOMAIN fetches : \A resp \in {"ok", "okVoted"} :
       (error = "failed" /\ FetchGetResolve(i, resp))
       => View' # "error"]_vars

\* C19: from the completion of the logout's clearAuthData to the next
\* sign-in, no token and no user are stored, isAuthenticated gives false,
\* and every checkAuthStatus that completes for a route off the allow-list
\* replaces the route by the sign-in route.
C19_SignedOutUntilSignin ==
  /\ [](signedOut => /\ token = NoToken
                      /\ cachedUser = NoUser
                      /\ ~IsAuthenticated("ok"))
  /\ [][signedOut
         => \A r \in Routes :
              (CheckAuthStatusResolve(r, "ok") /\ ~IsPublicRoute(r))
              => route' = "Signin"]_vars

\* The screen of a route off the allow-list is on display: the root layout
\* renders the stack, and the profile screen's AuthProtectedScreen renders
\* its children (the vote screen has no such wrapper).
ProtectedViewRendered ==
  /\ ~isLoading
  /\ ~IsPublicRoute(route)
  /\ (route = "profile") => (screenCheck = "done" /\ screenIsAuthenticated)

\* The guard has not decided yet for the route on display: a run of
\* checkAuthStatus for it is pending.
GuardUnknown == authChecks[route] > 0

\* C20: the screen of a protected route is on display only when the
\* credential read of the guard for that entry has resolved (with a token);
\* while a check for the route is pending the screen is not rendered.
C20_RenderedOnlyWhenAuthenticated == ProtectedViewRendered => ~GuardUnknown

\* ---------------------------------------------------------------- entering
\* The step answers the open dialog i, of the given kind, with the button.
Answered(i, kind, button) ==
  /\ i \in DOMAIN alerts
  /\ alerts[i] = kind
  /\ AnswerAlert(i, button)

\* secureVotingMode turns true only in the step that presses the confirm
\* button of an "Enter Voting Mode" dialog, and the Cancel button of that
\* dialog changes neither secureVotingMode nor showCandidates.
LockedOnlyByConfirmation ==
  /\ (~secureVotingMode /\ secureVotingMode')
       => \E i \in DOMAIN alerts : Answered(i, "EnterVotingMode", "confirm")
  /\ \A i \in DOMAIN alerts :
       Answered(i, "EnterVotingMode", "cancel")
         => UNCHANGED <<secureVotingMode, showCandidates>>

\* C21 as stated: secureVotingMode becomes true only by the confirm button
\* of the "Enter Voting Mode" dialog; Cancel, and the press of the Enter
\* button itself, leave the session in PreEntry (secureVotingMode false and
\* showCandidates false).
C21_EnterLeavesPreEntry ==
  [][/\ LockedOnlyByConfirmation
     /\ (PreEntry /\ PressEnter) => PreEntry']_vars

\* C21, amended: as above, but the press of the Enter button leaves the
\* session in PreEntry on a native platform only; on web it shows the option
\* list at once (showCandidates true) with secureVotingMode still false.
C21_LockOnlyByConfirmation ==
  [][/\ LockedOnlyByConfirmation
     /\ (PreEntry /\ PressEnter /\ ~isWeb)
          => (PreEntry' /\ Count("EnterVotingMode", alerts') = 1)
     /\ (PreEntry /\ PressEnter /\ isWeb)
          => (showCandidates' /\ ~secureVotingMode')]_vars

\* C21 witness: on a native platform the dialog has been confirmed and the
\* session is locked on the option list.
C21_Witness ==
  /\ ~isWeb /\ secureVotingMode /\ showCandidates /\ alerts = <<>>
  /\ View = "candidates"

\* ---------------------------------------------------------------- hardware back
\* C22: a hardware back press in secure voting mode is consumed: the route
\* and the session are unchanged and one "Exit Secure Voting?" dialog is
\* raised; the Exit button of that dialog ends secure voting mode and closes
\* the option list, the Continue Voting button changes nothing but the
\* dialog; outside secure voting mode the press raises no dialog and the
\* navigator goes back.
C22_HardwareBackAsksFirst ==
  [][/\ (HardwareBack /\ secureVotingMode)
          => /\ UNCHANGED <<route, screenVars>>
             /\ Count("ExitSecureBack", alerts')
                  = Count("ExitSecureBack", alerts) + 1
     /\ (HardwareBack /\ ~secureVotingMode)
          => /\ route' = "home"
             /\ UNCHANGED <<alerts, screenVars>>
     /\ \A i \in DOMAIN alerts :
          /\ Answered(i, "ExitSecureBack", "confirm")
               => (~secureVotingMode' /\ ~showCandidates' /\ route' = route)
          /\ Answered(i, "ExitSecureBack", "cancel")
               => UNCHANGED <<route, screenVars>>]_vars

\* C22 witness: the back press of a locked session has been consumed; its
\* dialog is open over the option list and the vote screen is still shown.
C22_Witness ==
  /\ secureVotingMode /\ showCandidates /\ route = "vote"
  /\ alerts = <<"ExitSecureBack">>

\* ---------------------------------------------------------------- lifecycle subscription
\* C23: the screen is subscribed to AppState changes only while
\* secureVotingMode is true, so the 'change' listener handleAppStateChange
\* runs in no step that starts with secureVotingMode false.
C23_ListenerOnlyWhileLocked ==
  [][\A nextAppState \in AppStates :
       HandleAppStateChange(nextAppState) => secureVotingMode]_vars

\* ---------------------------------------------------------------- store failures
\* The profile screen shows its error view with the Retry button.
ProfileErrorShown ==
  /\ route = "profile"
  /\ profileError /\ profile = NoUser /\ ~profileLoading

\* C24: a clearAuthData call whose store operation fails still ends in a
\* defined outcome of its caller (the profile's 401 handling or the logout):
\* the redirect to the sign-in route or the retryable error view.
C24_ClearFailureHasOutcome ==
  [][\A c \in ClearCalls :
       ClearResolve(c, "throws")
         => (route' = "Signin" \/ ProfileErrorShown')]_vars

ProtectedRoutes == {r \in Routes : ~IsPublicRoute(r)}

\* The routes that have an entry in the router's history.
InHistory == {history[k] : k \in DOMAIN history}

C27_ReentryStartsFresh ==
  [][\A i \in DOMAIN alerts :
       Answered(i, "EnterVotingMode", "confirm")
         => (selectedOption' = Null /\ ~VoteButtonEnabled')]_vars

\* ---------------------------------------------------------------- busy flags
\* The pending reads and requests of fetchEventData and handleVote return:
\* a step of a pending call is taken whenever one stays possible.
ResolveFetch ==
  \/ \E i \in DOMAIN fetches, tok \in GetAuthTokenResults :
       FetchTokenResolve(i, tok)
  \/ \E i \in DOMAIN fetches, resp \in GetResponses : FetchGetResolve(i, resp)

ResolveVote ==
  \/ \E i \in DOMAIN votes, tok \in GetAuthTokenResults :
       VoteTokenResolve(i, tok)
  \/ \E i \in DOMAIN votes, resp \in PostResponses : VotePostResolve(i, resp)

\* The vote screen on the web, where the two handlers run as on the
\* native platforms, with the pending calls returning.
LiveInit == Init /\ isWeb

LiveSpec ==
  /\ LiveInit /\ [][WebNext]_vars
  /\ WF_vars(ResolveFetch) /\ WF_vars(ResolveVote)

\* C28: a busy flag is set only while a call of its handler is pending, and
\* every step that completes a call of fetchEventData leaves loading false,
\* every step that completes a call of handleVote leaves voting false; so,
\* the pending reads and requests returning, a set flag is cleared again
\* (for voting: unless the dialog the call has to raise cannot be opened
\* because MaxAlerts dialogs are open).
C28_BusyFlagsClear ==
  /\ [](loading => fetches # <<>>)
  /\ [](voting => votes # <<>>)
  /\ [][/\ Len(fetches') < Len(fetches) => ~loading'
        /\ Len(votes') < Len(votes) => ~voting']_vars
  /\ loading ~> ~loading
  /\ voting ~> (~voting \/ ~CanAlert)

\* C28 witness: a call of fetchEventData and a call of handleVote have
\* completed, nothing is pending and both flags are false.
C28_Witness ==
  /\ fetches = <<>> /\ votes = <<>>
  /\ eventData # NoData /\ posts # <<>>
  /\ ~loading /\ ~voting

\* ---------------------------------------------------------------- interruption notice
\* C29: in secure voting mode a lifecycle change that leaves the active
\* status raises one "Voting Session Interrupted" dialog, and a change whose
\* previous status is not active (inactive -> background, background ->
\* inactive) raises none, so that active -> inactive -> background raises
\* the dialog exactly once.
C29_OneNoticePerBackgrounding ==
  [][\A nextAppState \in AppStates :
       HandleAppStateChange(nextAppState)
         => /\ (secureVotingMode /\ appState = "active")
                 => Count("Interrupted", alerts')
                      = Count("Interrupted", alerts) + 1
            /\ appState # "active" => alerts' = alerts]_vars

\* ---------------------------------------------------------------- token deciders
\* C30: whatever the token slot holds (nothing, the empty string, a
\* non-empty string), read without failure, the four deciders give one
\* answer: isAuthenticated of the storage module, isAuthenticated of the
\* guard module, the redirect decision of useAuthProtection on a protected
\* route (authenticated = no redirect) and AuthProtectedScreen.
C30_DecidersAgree ==
  /\ AuthStorageIsAuthenticated("ok") = IsAuthenticated("ok")
  /\ IsAuthenticated("ok") = ~NeedsAuth("profile", "ok")
  /\ IsAuthenticated("ok") = ScreenAdmits("ok")

============================================================================
